---- MODULE Spec2Model ----
(***************************************************************************)
(* State-machine model of src/frontend.js: the React task/comment client.  *)
(* Every action is one event handler or one processed HTTP response,       *)
(* together with the re-render (mount/unmount of child components and the  *)
(* useEffect of CommentList) that React performs before the next event.    *)
(* Callbacks passed as props close over the state of the render in which   *)
(* they were created, so every request in flight carries the `tasks`,      *)
(* `selectedTask` and `comments` values its continuation will use.         *)
(***************************************************************************)
EXTENDS Integers, Sequences, FiniteSets, TLC

\* ------------------------------------------------------------------ bounds
MaxReq == 2        \* requests that may be in flight at the same time
MaxId == 2         \* largest task id the server allocates
MaxNewComments == 1 \* comments the server creates (POST) in one run

\* ------------------------------------------------------------- JS values
SP == " "
NULL == "null"
Undefined == <<"undefined">>      \* a field that is absent from the JSON payload

RECURSIVE TrimStart(_)
TrimStart(s) ==
  IF s = <<>> THEN <<>>
  ELSE IF Head(s) = SP THEN TrimStart(Tail(s)) ELSE s

RECURSIVE TrimEnd(_)
TrimEnd(s) ==
  IF s = <<>> THEN <<>>
  ELSE IF s[Len(s)] = SP THEN TrimEnd(SubSeq(s, 1, Len(s) - 1)) ELSE s

\* String.prototype.trim (only called on a string)
Trim(s) == TrimEnd(TrimStart(s))

RECURSIVE SeqMap(_, _, _)
\* Array.prototype.map for "x.id === v.id ? v : x"
SeqMap(s, id, v) ==
  IF s = <<>> THEN <<>>
  ELSE <<IF Head(s).id = id THEN v ELSE Head(s)>> \o SeqMap(Tail(s), id, v)

RECURSIVE SeqFilter(_, _)
\* Array.prototype.filter for "x.id !== id"
SeqFilter(s, id) ==
  IF s = <<>> THEN <<>>
  ELSE (IF Head(s).id # id THEN <<Head(s)>> ELSE <<>>) \o SeqFilter(Tail(s), id)

Ids(s) == {s[i].id : i \in 1..Len(s)}
ById(s, id) == s[CHOOSE i \in 1..Len(s) : s[i].id = id]

\* ------------------------------------------------------------ the records
NoTask == [id |-> 0, title |-> <<>>, description |-> <<>>,
           status |-> NULL, priority |-> NULL]
NoComment == [id |-> 0, task_id |-> 0, content |-> <<>>, created_at |-> 0, updated_at |-> 0]
NoBody == [title |-> <<>>, description |-> <<>>, status |-> NULL, priority |-> NULL,
           content |-> <<>>]
NoAlert == <<>>

\* server data ---------------------------------------------------------------
\* Task lists the first GET /api/tasks may return: one task, with or without the
\* optional description field.
ServerTask(i, description) ==
  [id |-> i, title |-> <<"a">>, description |-> description,
   status |-> "pending", priority |-> "low"]
OneTask == <<ServerTask(1, <<"d">>)>>
BareTask == <<ServerTask(1, Undefined)>>
FirstNewId == Len(OneTask) + 1
\* ... or as many tasks as the server has ids for
TwoTasks == [i \in 1..MaxId |-> ServerTask(i, <<"d">>)]
\* Comment lists GET /api/tasks/{id}/comments may return for task i: none, or one
\* comment whose updated_at is one of updates.
ServerComment(i, upd) == [id |-> i, task_id |-> i, content |-> <<"c">>,
                          created_at |-> 1, updated_at |-> upd]
ServerCommentLists(i, updates) == {<<>>} \cup {<<ServerComment(i, u)>> : u \in updates}
FirstNewCid == MaxId + 1

\* what the user types / picks
TitleInputs == {<<SP>>, <<SP, "b">>}
DescriptionInputs == {<<"e", SP>>}
StatusInputs == {"completed"}
PriorityInputs == {"high"}
ContentInputs == {<<SP>>, <<"k", SP>>}

\* how a request ends
Outcomes == {"ok", "error_json", "error_no_field", "error_not_json", "network"}
ServerError == "error sent by the server"
JsonSyntaxError == "Unexpected token < in JSON at position 0"
NetworkError == "Failed to fetch"
TrimTypeError == "Cannot read properties of undefined (reading 'trim')"

\* --------------------------------------------------------------- the state
VARIABLES
  tasks, loading, error, showForm, selectedTask, editingTask,   \* TaskList, L552-557
  taskForm,          \* the creation TaskForm of L617 (mounted while showForm)
  taskEditForm,      \* the TaskForm of L490 inside the TaskItem being edited
  isDeleting,        \* ids of the mounted TaskItems whose isDeleting is true, L442
  comments, commentsLoading, commentsError, showCommentForm, editingComment, \* CommentList, L193-197
  commentForm,       \* the creation CommentForm of L252
  commentEditForm,   \* the CommentForm of L149 inside the CommentItem being edited
  commentIsDeleting, \* ids of the mounted CommentItems whose isDeleting is true, L119
  net,               \* the requests in flight, in the order sent, each with its closure
  nextId, nextCid,   \* the server's id allocators
  alertMsg           \* the window.alert shown by the last step (NoAlert: none)

vars == <<tasks, loading, error, showForm, selectedTask, editingTask, taskForm,
          taskEditForm, isDeleting, comments, commentsLoading, commentsError,
          showCommentForm, editingComment, commentForm, commentEditForm,
          commentIsDeleting, net, nextId, nextCid, alertMsg>>

\* The current state as one record: handlers are functions from it to the state
\* after their setState calls.
St == [tasks |-> tasks, loading |-> loading, error |-> error, showForm |-> showForm,
       selectedTask |-> selectedTask, editingTask |-> editingTask,
       taskForm |-> taskForm, taskEditForm |-> taskEditForm, isDeleting |-> isDeleting,
       comments |-> comments, commentsLoading |-> commentsLoading,
       commentsError |-> commentsError, showCommentForm |-> showCommentForm,
       editingComment |-> editingComment, commentForm |-> commentForm,
       commentEditForm |-> commentEditForm, commentIsDeleting |-> commentIsDeleting,
       net |-> net, nextId |-> nextId, nextCid |-> nextCid, alertMsg |-> alertMsg]

\* TaskForm state at mount, L283-288 (task = NoTask: the creation form)
NewTaskForm(task) ==
  [mounted |-> TRUE,
   title |-> IF task # NoTask THEN task.title ELSE <<>>,
   description |-> IF task # NoTask THEN task.description ELSE <<>>,
   status |-> IF task # NoTask THEN task.status ELSE "pending",
   priority |-> IF task # NoTask THEN task.priority ELSE "medium",
   isSubmitting |-> FALSE, error |-> NULL]
NoTaskForm == [mounted |-> FALSE, title |-> <<>>, description |-> <<>>, status |-> NULL,
               priority |-> NULL, isSubmitting |-> FALSE, error |-> NULL]

\* CommentForm state at mount, L18-20
NewCommentForm(comment) ==
  [mounted |-> TRUE,
   content |-> IF comment # NoComment THEN comment.content ELSE <<>>,
   isSubmitting |-> FALSE, error |-> NULL]
NoCommentForm == [mounted |-> FALSE, content |-> <<>>, isSubmitting |-> FALSE, error |-> NULL]

\* A request in flight. id: the task or comment id in the URL (0: none); tasks,
\* selectedTask, comments: the values the callbacks passed as props closed over;
\* taskId: the taskId prop of the CommentList whose render made the callbacks;
\* live: the component that awaits the response (form or item) is still mounted;
\* listLive: the CommentList whose setters the continuation calls is still mounted.
TaskKinds == {"POST_TASK", "PUT_TASK", "DELETE_TASK"}
CommentKinds == {"POST_COMMENT", "PUT_COMMENT", "DELETE_COMMENT"}
Request(kind, id, body, s) ==
  [kind |-> kind, id |-> id, body |-> body,
   tasks |-> IF kind \in TaskKinds THEN s.tasks ELSE <<>>,
   selectedTask |-> IF kind \in TaskKinds THEN s.selectedTask ELSE NoTask,
   comments |-> IF kind \in CommentKinds THEN s.comments ELSE <<>>,
   taskId |-> IF kind \in CommentKinds THEN s.selectedTask.id ELSE 0,
   live |-> TRUE, listLive |-> TRUE]
\* the requests of the two effects (L208, L566) use no callback of a parent
CommentsFetch(taskId) == Request("GET_COMMENTS", taskId, NoBody, NoTask)
TasksFetch == Request("GET_TASKS", 0, NoBody, NoTask)

\* net without its i-th request
Remove(q, i) == SubSeq(q, 1, i - 1) \o SubSeq(q, i + 1, Len(q))
\* The order of the requests in flight means nothing (any of them may be answered
\* next): net is kept sorted by method, resource and id.
KindRank(kind) ==
  CASE kind = "GET_TASKS" -> 0 [] kind = "POST_TASK" -> 1 [] kind = "PUT_TASK" -> 2
    [] kind = "DELETE_TASK" -> 3 [] kind = "GET_COMMENTS" -> 4 [] kind = "POST_COMMENT" -> 5
    [] kind = "PUT_COMMENT" -> 6 [] kind = "DELETE_COMMENT" -> 7
Before(r, x) ==
  \/ KindRank(r.kind) < KindRank(x.kind)
  \/ KindRank(r.kind) = KindRank(x.kind) /\ r.id <= x.id
RECURSIVE Send(_, _)
\* fetch(...): one more request in flight
Send(q, r) ==
  IF q = <<>> THEN <<r>>
  ELSE IF Before(r, Head(q)) THEN <<r>> \o q ELSE <<Head(q)>> \o Send(Tail(q), r)
\* how many requests equal to r are in flight
Copies(q, r) == Cardinality({i \in 1..Len(q) : q[i] = r})

\* ------------------------------------------------------- render (commit)
\* L600-601: the task panel is rendered once loading is over without error
ListShown(x) == ~x.loading /\ x.error = NULL
\* L645-651: <CommentList taskId=...> exists while a task is selected
CommentListMounted(x) == ListShown(x) /\ x.selectedTask # NoTask
\* L236-237: CommentList renders its form and items only when loaded without error
CommentItemsShown(x) == CommentListMounted(x) /\ ~x.commentsLoading /\ x.commentsError = NULL

RECURSIVE Relive(_, _, _, _, _, _, _, _, _)
\* The requests in flight after a render: a continuation whose component was
\* unmounted keeps running, but its own setState calls have no effect any more.
Relive(q, createKept, editKept, itemIds, cfKept, cefKept, citemsKept, citemIds, clKept) ==
  IF q = <<>> THEN <<>>
  ELSE LET r == Head(q)
           alive == CASE r.kind = "POST_TASK" -> createKept
                      [] r.kind = "PUT_TASK" -> editKept
                      [] r.kind = "DELETE_TASK" -> r.id \in itemIds
                      [] r.kind = "POST_COMMENT" -> cfKept
                      [] r.kind = "PUT_COMMENT" -> cefKept
                      [] r.kind = "DELETE_COMMENT" -> citemsKept /\ r.id \in citemIds
                      [] OTHER -> TRUE
           listAlive == r.kind \in CommentKinds \cup {"GET_COMMENTS"} => clKept
       IN <<[r EXCEPT !.live = @ /\ alive, !.listLive = @ /\ listAlive]>>
          \o Relive(Tail(q), createKept, editKept, itemIds, cfKept, cefKept,
                    citemsKept, citemIds, clKept)

\* the effect with an empty dependency list: at mount only
CommentsEffectAtMount(old, u) ==
  /\ CommentListMounted(u)
  /\ ~CommentListMounted(old)
  /\ u.selectedTask.id # 0

\* useEffect of CommentList, L199-203: runs at mount and when taskId changed
CommentsEffect(old, u) ==
  /\ CommentListMounted(u)
  /\ \/ ~CommentListMounted(old)
     \/ u.selectedTask.id # old.selectedTask.id
  /\ u.selectedTask.id # 0

\* The state after React has rendered u, the result of a handler run in state
\* old: children are mounted and unmounted as the JSX of L236-277 and L600-662
\* says, component state lives as long as its component, and the effect of
\* CommentList runs (setLoading(true) and the GET of L207-208).
Render(old, u) ==
  LET shown == ListShown(u)
      createKept == shown /\ u.showForm /\ u.taskForm.mounted
      editShown == shown /\ u.editingTask \in Ids(u.tasks)
      editKept == editShown /\ u.taskEditForm.mounted /\ u.editingTask = old.editingTask
      clNow == CommentListMounted(u)
      clKept == clNow /\ CommentListMounted(old)
      effect == CommentsEffect(old, u)
      cComments == IF clKept THEN u.comments ELSE <<>>
      cLoading == IF clKept THEN u.commentsLoading \/ effect ELSE TRUE
      cError == IF clKept THEN u.commentsError ELSE NULL
      cShowForm == IF clKept THEN u.showCommentForm ELSE FALSE
      cEditing == IF clKept THEN u.editingComment ELSE 0
      itemsNow == clNow /\ ~cLoading /\ cError = NULL
      itemsKept == itemsNow /\ clKept /\ CommentItemsShown(old)
      cfKept == itemsKept /\ cShowForm /\ u.commentForm.mounted
      cefShown == itemsNow /\ cEditing \in Ids(cComments)
      cefKept == cefShown /\ itemsKept /\ u.commentEditForm.mounted
                 /\ cEditing = old.editingComment
      relived == Relive(u.net, createKept, editKept,
                        IF shown THEN Ids(u.tasks) ELSE {}, cfKept, cefKept,
                        itemsKept, Ids(cComments), clKept)
  IN [u EXCEPT
        !.taskForm = IF createKept THEN u.taskForm
                     ELSE IF shown /\ u.showForm THEN NewTaskForm(NoTask) ELSE NoTaskForm,
        !.taskEditForm = IF editKept THEN u.taskEditForm
                         ELSE IF editShown THEN NewTaskForm(ById(u.tasks, u.editingTask))
                         ELSE NoTaskForm,
        !.isDeleting = IF shown THEN u.isDeleting \cap Ids(u.tasks) ELSE {},
        !.comments = cComments,
        !.commentsLoading = cLoading,
        !.commentsError = cError,
        !.showCommentForm = cShowForm,
        !.editingComment = cEditing,
        !.commentForm = IF cfKept THEN u.commentForm
                        ELSE IF itemsNow /\ cShowForm THEN NewCommentForm(NoComment)
                        ELSE NoCommentForm,
        !.commentEditForm = IF cefKept THEN u.commentEditForm
                            ELSE IF cefShown THEN NewCommentForm(ById(cComments, cEditing))
                            ELSE NoCommentForm,
        !.commentIsDeleting = IF itemsKept THEN u.commentIsDeleting \cap Ids(cComments)
                              ELSE {},
        !.net = IF effect THEN Send(relived, CommentsFetch(u.selectedTask.id))
                ELSE relived]

\* One step of the program: the handler's result u is rendered; a step that
\* would put more than MaxReq requests in flight is not taken.
Commit(u) ==
  \E v \in {Render(St, u)} :
  /\ Len(v.net) <= MaxReq
  /\ tasks' = v.tasks /\ loading' = v.loading /\ error' = v.error
  /\ showForm' = v.showForm /\ selectedTask' = v.selectedTask
  /\ editingTask' = v.editingTask /\ taskForm' = v.taskForm
  /\ taskEditForm' = v.taskEditForm /\ isDeleting' = v.isDeleting
  /\ comments' = v.comments /\ commentsLoading' = v.commentsLoading
  /\ commentsError' = v.commentsError /\ showCommentForm' = v.showCommentForm
  /\ editingComment' = v.editingComment /\ commentForm' = v.commentForm
  /\ commentEditForm' = v.commentEditForm /\ commentIsDeleting' = v.commentIsDeleting
  /\ net' = v.net /\ nextId' = v.nextId /\ nextCid' = v.nextCid
  /\ alertMsg' = v.alertMsg

\* The state of a handler's start: no alert is on screen.
Now == [St EXCEPT !.alertMsg = NoAlert]

\* After root.render(<App />), L551-561 and L681-682: TaskList is loading and its
\* effect has sent GET /api/tasks.
Init ==
  /\ tasks = <<>> /\ loading = TRUE /\ error = NULL /\ showForm = FALSE
  /\ selectedTask = NoTask /\ editingTask = 0
  /\ taskForm = NoTaskForm /\ taskEditForm = NoTaskForm /\ isDeleting = {}
  /\ comments = <<>> /\ commentsLoading = TRUE /\ commentsError = NULL
  /\ showCommentForm = FALSE /\ editingComment = 0
  /\ commentForm = NoCommentForm /\ commentEditForm = NoCommentForm
  /\ commentIsDeleting = {}
  /\ net = <<TasksFetch>> /\ nextId = FirstNewId /\ nextCid = FirstNewCid
  /\ alertMsg = NoAlert

\* ------------------------------------------------------------ error texts
\* L323-326 and L341-343 (L50-53, L133-136, L456-459 alike): the message of the
\* Error that reaches the catch block of a write request that did not succeed.
\* A body that is not JSON makes response.json() reject before the throw of L325.
WriteError(outcome, generic) ==
  CASE outcome = "error_json" -> ServerError
    [] outcome = "error_no_field" -> generic
    [] outcome = "error_not_json" -> JsonSyntaxError
    [] outcome = "network" -> NetworkError
\* L567 and L209: a read request does not look at the body of a failed response
ReadError(outcome, generic) ==
  IF outcome = "network" THEN NetworkError ELSE generic

\* ---------------------------------------------------------------- TaskList
\* fetchTasks that shows an empty list after a failure instead of the error
fetchTasksSwallowing(s, outcome, list) ==
  IF outcome = "ok"
  THEN [s EXCEPT !.tasks = list, !.loading = FALSE]
  ELSE [s EXCEPT !.tasks = <<>>, !.loading = FALSE]

\* fetchTasks after the await, L566-575
fetchTasks(s, outcome, list) ==
  IF outcome = "ok"
  THEN [s EXCEPT !.tasks = list, !.loading = FALSE]
  ELSE [s EXCEPT !.error = ReadError(outcome, "Failed to fetch tasks"), !.loading = FALSE]

\* L578-581, as the closure c (the request) sees tasks
handleTaskAdded(s, c, newTask) ==
  [s EXCEPT !.tasks = <<newTask>> \o c.tasks, !.showForm = FALSE]

\* L583-591, as the closure c sees tasks and selectedTask
handleTaskUpdated(s, c, updatedTask) ==
  [s EXCEPT !.tasks = SeqMap(c.tasks, updatedTask.id, updatedTask),
            !.editingTask = 0,
            !.selectedTask = IF c.selectedTask # NoTask /\ c.selectedTask.id = updatedTask.id
                             THEN updatedTask ELSE @]

\* L593-598, as the closure c sees tasks and selectedTask
handleTaskDeleted(s, c, taskId) ==
  [s EXCEPT !.tasks = SeqFilter(c.tasks, taskId),
            !.selectedTask = IF c.selectedTask # NoTask /\ c.selectedTask.id = taskId
                             THEN NoTask ELSE @]

\* ---------------------------------------------------------------- TaskForm
Forms == {"create", "edit"}
FormOf(s, which) == IF which = "create" THEN s.taskForm ELSE s.taskEditForm
WithForm(s, which, f) ==
  IF which = "create" THEN [s EXCEPT !.taskForm = f] ELSE [s EXCEPT !.taskEditForm = f]

\* the JSON body of L315-320
TaskBody(f) ==
  [title |-> Trim(f.title), description |-> Trim(f.description),
   status |-> f.status, priority |-> f.priority, content |-> <<>>]
\* what the server answers to a successful POST or PUT: the task as saved
SavedTask(id, body) ==
  [id |-> id, title |-> body.title, description |-> body.description,
   status |-> body.status, priority |-> body.priority]

\* handleSubmit without the check of L295-298
TaskFormSubmitUnchecked(s, which) ==
  LET f == FormOf(s, which) IN
  [WithForm(s, which, [f EXCEPT !.isSubmitting = TRUE, !.error = NULL])
     EXCEPT !.net = Send(@, IF which = "edit"
                            THEN Request("PUT_TASK", s.editingTask, TaskBody(f), s)
                            ELSE Request("POST_TASK", 0, TaskBody(f), s))]

\* handleSubmit up to the await of L310. description.trim() of L317 is inside the
\* try: with no description in the task the TypeError goes to L341-345.
TaskFormSubmit(s, which) ==
  LET f == FormOf(s, which) IN
  IF Trim(f.title) = <<>>
  THEN WithForm(s, which, [f EXCEPT !.error = "Task title is required"])
  ELSE IF f.description = Undefined
  THEN WithForm(s, which, [f EXCEPT !.error = TrimTypeError, !.isSubmitting = FALSE])
  ELSE [WithForm(s, which, [f EXCEPT !.isSubmitting = TRUE, !.error = NULL])
          EXCEPT !.net = Send(@, IF which = "edit"
                                   THEN Request("PUT_TASK", s.editingTask, TaskBody(f), s)
                                   ELSE Request("POST_TASK", 0, TaskBody(f), s))]

\* handleSubmit whose reset of L336-340 is done after a failure as well
TaskFormResponseResetting(s, r, outcome) ==
  LET which == IF r.kind = "PUT_TASK" THEN "edit" ELSE "create"
      f == FormOf(s, which)
      t == IF outcome # "ok" THEN s
           ELSE IF which = "edit"
           THEN handleTaskUpdated(s, r, SavedTask(r.id, r.body))
           ELSE [handleTaskAdded(s, r, SavedTask(s.nextId, r.body)) EXCEPT !.nextId = @ + 1]
  IN IF r.live
     THEN WithForm(t, which,
            [f EXCEPT !.title = <<>>, !.description = <<>>, !.status = "pending",
                      !.priority = "medium", !.isSubmitting = FALSE,
                      !.error = IF outcome = "ok" THEN @
                                ELSE WriteError(outcome, "Failed to save task")])
     ELSE t

\* handleSubmit after the await of L310, L323-345, for the response to request r
TaskFormResponse(s, r, outcome) ==
  LET which == IF r.kind = "PUT_TASK" THEN "edit" ELSE "create"
      f == FormOf(s, which)
  IN IF outcome = "ok"
     THEN LET t == IF which = "edit"
                   THEN handleTaskUpdated(s, r, SavedTask(r.id, r.body))
                   ELSE [handleTaskAdded(s, r, SavedTask(s.nextId, r.body))
                           EXCEPT !.nextId = @ + 1]
          IN IF r.live
             THEN WithForm(t, which, [f EXCEPT !.title = <<>>, !.description = <<>>,
                                               !.status = "pending", !.priority = "medium",
                                               !.isSubmitting = FALSE])
             ELSE t
     ELSE IF r.live
          THEN WithForm(s, which, [f EXCEPT !.error = WriteError(outcome, "Failed to save task"),
                                            !.isSubmitting = FALSE])
          ELSE s

\* ---------------------------------------------------------------- TaskItem
\* handleDelete up to the await of L452, after window.confirm was accepted
TaskItemDelete(s, id) ==
  [s EXCEPT !.isDeleting = @ \cup {id},
            !.net = Send(@, Request("DELETE_TASK", id, NoBody, s))]

\* handleDelete that tells the parent whatever the response was
TaskItemDeleteResponseNotifying(s, r, outcome) ==
  LET t == IF outcome = "ok"
           THEN handleTaskDeleted(s, r, r.id)
           ELSE [handleTaskDeleted(s, r, r.id)
                   EXCEPT !.alertMsg = <<"Failed to delete task: ",
                                         WriteError(outcome, "Failed to delete task")>>]
  IN IF r.live THEN [t EXCEPT !.isDeleting = @ \ {r.id}] ELSE t

\* handleDelete after the await, L456-466
TaskItemDeleteResponse(s, r, outcome) ==
  LET t == IF outcome = "ok"
           THEN handleTaskDeleted(s, r, r.id)
           ELSE [s EXCEPT !.alertMsg = <<"Failed to delete task: ",
                                         WriteError(outcome, "Failed to delete task")>>]
  IN IF r.live THEN [t EXCEPT !.isDeleting = @ \ {r.id}] ELSE t

\* ------------------------------------------------------------ task actions
\* the response to GET /api/tasks arrives
TasksFetched(outcomes, lists) ==
  \E i \in 1..Len(net), outcome \in outcomes, list \in lists :
    /\ net[i].kind = "GET_TASKS"
    /\ Commit(fetchTasks([Now EXCEPT !.net = Remove(@, i)], outcome, list))

\* L608-613: the Add Task / Cancel button of the header
ToggleForm ==
  /\ ListShown(St)
  /\ Commit([Now EXCEPT !.showForm = ~showForm])

\* L619 with L419-426: Cancel inside the creation form
CancelForm ==
  /\ taskForm.mounted /\ ~taskForm.isSubmitting
  /\ Commit([Now EXCEPT !.showForm = FALSE])

\* L352-361: typing into the title field
SetTitle(inputs) ==
  \E which \in Forms, v \in inputs :
    /\ FormOf(St, which).mounted /\ ~FormOf(St, which).isSubmitting
    /\ Commit(WithForm(Now, which, [FormOf(St, which) EXCEPT !.title = v]))

\* L366-374
SetDescription(inputs) ==
  \E which \in Forms, v \in inputs :
    /\ FormOf(St, which).mounted /\ ~FormOf(St, which).isSubmitting
    /\ Commit(WithForm(Now, which, [FormOf(St, which) EXCEPT !.description = v]))

\* L380-390
SetStatus(inputs) ==
  \E which \in Forms, v \in inputs :
    /\ FormOf(St, which).mounted /\ ~FormOf(St, which).isSubmitting
    /\ Commit(WithForm(Now, which, [FormOf(St, which) EXCEPT !.status = v]))

\* L395-405
SetPriority(inputs) ==
  \E which \in Forms, v \in inputs :
    /\ FormOf(St, which).mounted /\ ~FormOf(St, which).isSubmitting
    /\ Commit(WithForm(Now, which, [FormOf(St, which) EXCEPT !.priority = v]))

\* L349: the form's submit event. The fields and buttons are disabled while a
\* request of this form is awaited (L359, L415). byButton: the event comes from
\* the submit button, which is disabled as well while the title is blank (L415);
\* otherwise it is dispatched on the form itself.
SubmitTaskStep(which) ==
  /\ FormOf(St, which).mounted /\ ~FormOf(St, which).isSubmitting
  /\ Commit(TaskFormSubmit(Now, which))
SubmitTaskForm(byButton) ==
  \E which \in Forms :
    /\ byButton => Trim(FormOf(St, which).title) # <<>>
    /\ SubmitTaskStep(which)

\* the response to a POST /api/tasks or PUT /api/tasks/{id} arrives
TaskSaveStep(i, outcome) ==
  /\ net[i].kind \in {"POST_TASK", "PUT_TASK"}
  /\ (outcome = "ok" /\ net[i].kind = "POST_TASK") => nextId <= MaxId
  /\ Commit(TaskFormResponse([Now EXCEPT !.net = Remove(@, i)], net[i], outcome))
TaskSaveResponse(outcomes) ==
  \E i \in 1..Len(net), outcome \in outcomes : TaskSaveStep(i, outcome)

\* L500 and L633: a click on a task item that is not in edit mode
SelectTask ==
  \E k \in 1..Len(tasks) :
    /\ ListShown(St) /\ editingTask # tasks[k].id
    /\ Commit([Now EXCEPT !.selectedTask = tasks[k]])

\* L533-538 and L634: the Edit button of a task item
EditTask ==
  \E k \in 1..Len(tasks) :
    /\ ListShown(St) /\ editingTask # tasks[k].id
    /\ Commit([Now EXCEPT !.editingTask = tasks[k].id])

\* L635 with L419-426: Cancel inside the edit form
CancelEdit ==
  /\ taskEditForm.mounted /\ ~taskEditForm.isSubmitting
  /\ Commit([Now EXCEPT !.editingTask = 0])

\* L539-545 and L444-452: the Delete button of a task item and its confirm
DeleteTask ==
  \E k \in 1..Len(tasks), accepted \in BOOLEAN :
    /\ ListShown(St) /\ editingTask # tasks[k].id /\ tasks[k].id \notin isDeleting
    /\ Commit(IF accepted THEN TaskItemDelete(Now, tasks[k].id) ELSE Now)

\* the response to a DELETE /api/tasks/{id} arrives
TaskDeleteStep(i, outcome) ==
  /\ net[i].kind = "DELETE_TASK"
  /\ Commit(TaskItemDeleteResponse([Now EXCEPT !.net = Remove(@, i)], net[i], outcome))
TaskDeleteResponse(outcomes) ==
  \E i \in 1..Len(net), outcome \in outcomes : TaskDeleteStep(i, outcome)

\* ------------------------------------------------------------- CommentList
\* fetchComments dropping the response of a task that is no longer the selected one
fetchCommentsLatestOnly(s, r, outcome, list) ==
  IF ~r.listLive \/ r.id # s.selectedTask.id THEN s
  ELSE IF outcome = "ok"
  THEN [s EXCEPT !.comments = list, !.commentsLoading = FALSE]
  ELSE [s EXCEPT !.commentsError = ReadError(outcome, "Failed to fetch comments"),
                 !.commentsLoading = FALSE]

\* fetchComments after the await, L208-217; the setters of an unmounted
\* CommentList (r.listLive false) change nothing
fetchComments(s, r, outcome, list) ==
  IF ~r.listLive THEN s
  ELSE IF outcome = "ok"
  THEN [s EXCEPT !.comments = list, !.commentsLoading = FALSE]
  ELSE [s EXCEPT !.commentsError = ReadError(outcome, "Failed to fetch comments"),
                 !.commentsLoading = FALSE]

\* L220-223, as the closure c sees comments
handleCommentAdded(s, c, newComment) ==
  IF ~c.listLive THEN s
  ELSE [s EXCEPT !.comments = <<newComment>> \o c.comments, !.showCommentForm = FALSE]

\* L225-230
handleCommentUpdated(s, c, updatedComment) ==
  IF ~c.listLive THEN s
  ELSE [s EXCEPT !.comments = SeqMap(c.comments, updatedComment.id, updatedComment),
                 !.editingComment = 0]

\* L232-234
handleCommentDeleted(s, c, commentId) ==
  IF ~c.listLive THEN s
  ELSE [s EXCEPT !.comments = SeqFilter(c.comments, commentId)]

\* ------------------------------------------------------------- CommentForm
CommentFormOf(s, which) == IF which = "create" THEN s.commentForm ELSE s.commentEditForm
WithCommentForm(s, which, f) ==
  IF which = "create" THEN [s EXCEPT !.commentForm = f] ELSE [s EXCEPT !.commentEditForm = f]

\* the JSON body of L47
CommentBody(f) == [NoBody EXCEPT !.content = Trim(f.content)]
\* what the server answers to a successful POST: a new comment of the task
CreatedComment(id, taskId, body) ==
  [id |-> id, task_id |-> taskId, content |-> body.content, created_at |-> 1, updated_at |-> 1]
\* ... and to a successful PUT: the comment with its new content and update time
UpdatedComment(old, body) == [old EXCEPT !.content = body.content, !.updated_at = 2]

\* handleSubmit up to the await of L42. The edit form of L149-153 gets no taskId.
CommentFormSubmit(s, which) ==
  LET f == CommentFormOf(s, which) IN
  IF Trim(f.content) = <<>>
  THEN WithCommentForm(s, which, [f EXCEPT !.error = "Comment content is required"])
  ELSE [WithCommentForm(s, which, [f EXCEPT !.isSubmitting = TRUE, !.error = NULL])
          EXCEPT !.net = Send(@, IF which = "edit"
                      THEN Request("PUT_COMMENT", s.editingComment, CommentBody(f), s)
                      ELSE Request("POST_COMMENT", s.selectedTask.id, CommentBody(f), s))]

\* handleSubmit after the await of L42, L50-68, for the response to request r;
\* old: the comment the server holds under r.id (PUT)
CommentFormResponse(s, r, outcome, old) ==
  LET which == IF r.kind = "PUT_COMMENT" THEN "edit" ELSE "create"
      f == CommentFormOf(s, which)
  IN IF outcome = "ok"
     THEN LET t == IF which = "edit"
                   THEN handleCommentUpdated(s, r, UpdatedComment(old, r.body))
                   ELSE [handleCommentAdded(s, r, CreatedComment(s.nextCid, r.id, r.body))
                           EXCEPT !.nextCid = @ + 1]
          IN IF r.live
             THEN WithCommentForm(t, which, [f EXCEPT !.content = <<>>, !.isSubmitting = FALSE])
             ELSE t
     ELSE IF r.live
          THEN WithCommentForm(s, which,
                 [f EXCEPT !.error = WriteError(outcome, "Failed to save comment"),
                           !.isSubmitting = FALSE])
          ELSE s

\* ------------------------------------------------------------- CommentItem
\* handleDelete up to the await of L129, after window.confirm was accepted
CommentItemDelete(s, id) ==
  [s EXCEPT !.commentIsDeleting = @ \cup {id},
            !.net = Send(@, Request("DELETE_COMMENT", id, NoBody, s))]

\* handleDelete after the await, L133-143
CommentItemDeleteResponse(s, r, outcome) ==
  LET t == IF outcome = "ok"
           THEN handleCommentDeleted(s, r, r.id)
           ELSE [s EXCEPT !.alertMsg = <<"Failed to delete comment: ",
                                         WriteError(outcome, "Failed to delete comment")>>]
  IN IF r.live THEN [t EXCEPT !.commentIsDeleting = @ \ {r.id}] ELSE t

\* the annotation shown for every comment that has an updated_at at all
ShowsUpdatedWhenSet(comment) == comment.updated_at # NoComment.updated_at

\* L164-170: the item shows "Updated: ..." after "Created: ..."
ShowsUpdated(comment) == comment.updated_at # comment.created_at

\* --------------------------------------------------------- comment actions
\* the response to a GET /api/tasks/{id}/comments arrives
CommentsFetchStep(i, outcome, list) ==
  /\ net[i].kind = "GET_COMMENTS"
  /\ Commit(fetchComments([Now EXCEPT !.net = Remove(@, i)], net[i], outcome, list))
CommentsFetched(outcomes, updates) ==
  \E i \in 1..Len(net), outcome \in outcomes :
    \E list \in ServerCommentLists(net[i].id, updates) : CommentsFetchStep(i, outcome, list)

\* L243-248: the Add Comment / Cancel button of the header
ToggleCommentForm ==
  /\ CommentItemsShown(St)
  /\ Commit([Now EXCEPT !.showCommentForm = ~showCommentForm])

\* L255 with L98-105: Cancel inside the creation form
CancelCommentForm ==
  /\ commentForm.mounted /\ ~commentForm.isSubmitting
  /\ Commit([Now EXCEPT !.showCommentForm = FALSE])

\* L77-85: typing into the textarea
SetContent(inputs) ==
  \E which \in Forms, v \in inputs :
    /\ CommentFormOf(St, which).mounted /\ ~CommentFormOf(St, which).isSubmitting
    /\ Commit(WithCommentForm(Now, which, [CommentFormOf(St, which) EXCEPT !.content = v]))

\* L72: the form's submit event (fields and buttons disabled while awaiting, L84,
\* L94); byButton: from the submit button, disabled too while the content is blank
SubmitCommentStep(which) ==
  /\ CommentFormOf(St, which).mounted /\ ~CommentFormOf(St, which).isSubmitting
  /\ Commit(CommentFormSubmit(Now, which))
SubmitCommentForm(byButton) ==
  \E which \in Forms :
    /\ byButton => Trim(CommentFormOf(St, which).content) # <<>>
    /\ SubmitCommentStep(which)

\* the response to a POST /api/tasks/{id}/comments or PUT /api/comments/{id} arrives
CommentSaveStep(i, outcome) ==
  /\ net[i].kind \in {"POST_COMMENT", "PUT_COMMENT"}
  /\ (outcome = "ok" /\ net[i].kind = "POST_COMMENT") => nextCid < FirstNewCid + MaxNewComments
  /\ Commit(CommentFormResponse([Now EXCEPT !.net = Remove(@, i)], net[i], outcome,
              IF net[i].kind = "PUT_COMMENT" THEN ById(net[i].comments, net[i].id)
              ELSE NoComment))
CommentSaveResponse(outcomes) ==
  \E i \in 1..Len(net), outcome \in outcomes : CommentSaveStep(i, outcome)

\* L174-179 and L268: the Edit button of a comment item
EditComment ==
  \E k \in 1..Len(comments) :
    /\ CommentItemsShown(St) /\ editingComment # comments[k].id
    /\ Commit([Now EXCEPT !.editingComment = comments[k].id])

\* L269 with L98-105: Cancel inside the edit form
CancelEditComment ==
  /\ commentEditForm.mounted /\ ~commentEditForm.isSubmitting
  /\ Commit([Now EXCEPT !.editingComment = 0])

\* L180-186 and L121-129: the Delete button of a comment item and its confirm
DeleteComment ==
  \E k \in 1..Len(comments), accepted \in BOOLEAN :
    /\ CommentItemsShown(St) /\ editingComment # comments[k].id
    /\ comments[k].id \notin commentIsDeleting
    /\ Commit(IF accepted THEN CommentItemDelete(Now, comments[k].id) ELSE Now)

\* the response to a DELETE /api/comments/{id} arrives
CommentDeleteStep(i, outcome) ==
  /\ net[i].kind = "DELETE_COMMENT"
  /\ Commit(CommentItemDeleteResponse([Now EXCEPT !.net = Remove(@, i)], net[i], outcome))
CommentDeleteResponse(outcomes) ==
  \E i \in 1..Len(net), outcome \in outcomes : CommentDeleteStep(i, outcome)

\* ---------------------------------------------------------- specifications
\* The task panel and the comment fetches its selection drives: every handler of
\* TaskList and TaskItem, the creation and edit forms used through their buttons.
Next ==
  \/ TasksFetched({"ok", "error_json", "network"}, {OneTask})
  \/ ToggleForm
  \/ CancelForm
  \/ SetTitle({<<SP, "a">>})
  \/ SubmitTaskForm(TRUE)
  \/ TaskSaveResponse({"ok"})
  \/ SelectTask
  \/ EditTask
  \/ CancelEdit
  \/ DeleteTask
  \/ TaskDeleteResponse({"ok", "network"})
  \/ CommentsFetched({"ok", "network"}, {1})

Spec == Init /\ [][Next]_vars

\* The four forms, used one at a time, with every field, submitted through the
\* form's submit event, and requests that fail in every way (the successful
\* responses are in Spec).
NoFormOpen == ~showForm /\ editingTask = 0 /\ ~showCommentForm /\ editingComment = 0
FormsNext ==
  \/ TasksFetched({"ok"}, {BareTask})
  \/ (~showForm => NoFormOpen) /\ ToggleForm
  \/ CancelForm
  \/ NoFormOpen /\ EditTask
  \/ CancelEdit
  \/ SetTitle(TitleInputs)
  \/ SetDescription(DescriptionInputs)
  \/ SetStatus(StatusInputs)
  \/ SetPriority(PriorityInputs)
  \/ SubmitTaskForm(FALSE)
  \/ TaskSaveResponse(Outcomes \ {"ok"})
  \/ SelectTask
  \/ CommentsFetched({"ok"}, {1})
  \/ (~showCommentForm => NoFormOpen) /\ ToggleCommentForm
  \/ CancelCommentForm
  \/ NoFormOpen /\ EditComment
  \/ CancelEditComment
  \/ SetContent(ContentInputs)
  \/ SubmitCommentForm(FALSE)
  \/ CommentSaveResponse(Outcomes \ {"ok"})

SpecForms == Init /\ [][FormsNext]_vars

\* The comment panel of two tasks: every handler of CommentList and CommentItem
\* with requests that succeed, the comment forms used one at a time through their
\* buttons, deletions of comments that succeed or fail, and deletions of tasks
\* (asked for while nothing else is awaited) that fail.
CommentsNext ==
  \/ TasksFetched({"ok"}, {TwoTasks})
  \/ SelectTask
  \/ CommentsFetched({"ok"}, {1})
  \/ (~showCommentForm => NoFormOpen) /\ ToggleCommentForm
  \/ CancelCommentForm
  \/ SetContent({<<"k", SP>>})
  \/ SubmitCommentForm(TRUE)
  \/ CommentSaveResponse({"ok"})
  \/ NoFormOpen /\ EditComment
  \/ CancelEditComment
  \/ DeleteComment
  \/ CommentDeleteResponse({"ok", "network"})
  \/ net = <<>> /\ DeleteTask
  \/ TaskDeleteResponse({"network"})

SpecComments == Init /\ [][CommentsNext]_vars

\* ------------------------------------------------------------------ claims
\* GET /api/tasks/{id}/comments requests in flight for task id
FetchCount(q, id) == Cardinality({i \in 1..Len(q) : q[i].kind = "GET_COMMENTS" /\ q[i].id = id})
TaskIds == 1..MaxId

\* C1: a submit of the task form with an empty or whitespace-only title sends no
\* request, sets the message 'Task title is required' and leaves the task list,
\* the selection and the edit mode as they were; the comment form does the same
\* for blank content with 'Comment content is required'.
C1_BlankSubmitSendsNothing ==
  [][  /\ (\A which \in Forms :
            (Trim(FormOf(St, which).title) = <<>> /\ SubmitTaskStep(which))
            => (/\ net' = net
                /\ (IF which = "create" THEN taskForm' ELSE taskEditForm').error
                     = "Task title is required"
                /\ tasks' = tasks /\ selectedTask' = selectedTask
                /\ editingTask' = editingTask))
      /\ (\A which \in Forms :
            (Trim(CommentFormOf(St, which).content) = <<>> /\ SubmitCommentStep(which))
            => (/\ net' = net
                /\ (IF which = "create" THEN commentForm' ELSE commentEditForm').error
                     = "Comment content is required"
                /\ comments' = comments /\ tasks' = tasks
                /\ selectedTask' = selectedTask
                /\ editingTask' = editingTask /\ editingComment' = editingComment))]_vars

\* C1 witness: a creation form whose whitespace-only title was submitted
C1_Witness ==
  /\ taskForm.mounted /\ taskForm.title = <<SP>>
  /\ taskForm.error = "Task title is required" /\ ~taskForm.isSubmitting
  /\ net = <<>>

\* C2: when the successful response to a POST /api/tasks is processed, the list
\* is the new task followed by the list as it was just before, and the creation
\* form is closed.
C2_CreatedTaskIsPrepended ==
  [][\A i \in 1..Len(net) :
       (net[i].kind = "POST_TASK" /\ TaskSaveStep(i, "ok"))
       => /\ tasks' = <<SavedTask(nextId, net[i].body)>> \o tasks
          /\ showForm' = FALSE]_vars

\* C3: when the successful response to a PUT /api/tasks/X is processed, the
\* entry with id X is replaced by the returned task where it stands, nothing else
\* in the list changes, and a selection with id X holds the returned task.
C3_UpdatedTaskReplacedInPlace ==
  [][\A i \in 1..Len(net) :
       (net[i].kind = "PUT_TASK" /\ TaskSaveStep(i, "ok"))
       => LET returned == SavedTask(net[i].id, net[i].body) IN
          /\ tasks' = SeqMap(tasks, net[i].id, returned)
          /\ (selectedTask.id = net[i].id => selectedTask' = returned)]_vars

\* C4: when the successful response to a DELETE of task (comment) X is processed,
\* no entry with id X is in the list, and a selection with id X becomes empty.
C4_DeletedIsGoneAndDeselected ==
  [][  /\ (\A i \in 1..Len(net) :
            TaskDeleteStep(i, "ok")
            => (/\ net[i].id \notin Ids(tasks')
                /\ (selectedTask.id = net[i].id => selectedTask' = NoTask)))
      /\ (\A i \in 1..Len(net) :
            (CommentDeleteStep(i, "ok") /\ net[i].listLive)
            => (net[i].id \notin Ids(comments')))]_vars

\* C5: the creation form is never open while an entity is in edit mode, in the
\* task list and in the comment list, and at most one entity is in edit mode.
C5_CreatingXorEditing ==
  /\ ~(showForm /\ editingTask # 0)
  /\ ~(showCommentForm /\ editingComment # 0)
  /\ Cardinality({k \in 1..Len(tasks) : tasks[k].id = editingTask}) <= 1
  /\ Cardinality({k \in 1..Len(comments) : comments[k].id = editingComment}) <= 1

\* C6: after a create/update request that got a non-success HTTP status, the
\* form's error is the body's error string if the body is JSON with that field,
\* and 'Failed to save task' otherwise (field absent, or body not JSON).
C6_SaveErrorMessage ==
  [][\A i \in 1..Len(net) :
       \A outcome \in {"error_json", "error_no_field", "error_not_json"} :
         (net[i].live /\ TaskSaveStep(i, outcome))
         => (IF net[i].kind = "PUT_TASK" THEN taskEditForm' ELSE taskForm').error
              = IF outcome = "error_json" THEN ServerError ELSE "Failed to save task"]_vars

\* C7: a submit of a task form with a non-blank title sends exactly one request,
\* POST /api/tasks from the creation form and PUT /api/tasks/{id} from an edit
\* form, whose body has the trimmed title, the trimmed description, the status
\* and the priority, for every task, also one without a description.
C7_SubmitSendsOneRequest ==
  [][\A which \in Forms :
       (Trim(FormOf(St, which).title) # <<>> /\ SubmitTaskStep(which))
       => LET f == FormOf(St, which) IN
          /\ Len(net') = Len(net) + 1
          /\ \E k \in 1..Len(net') :
               /\ net'[k].kind = IF which = "edit" THEN "PUT_TASK" ELSE "POST_TASK"
               /\ net'[k].id = IF which = "edit" THEN editingTask ELSE 0
               /\ net'[k].body.title = Trim(f.title)
               /\ net'[k].body.description
                    = IF f.description = Undefined THEN <<>> ELSE Trim(f.description)
               /\ net'[k].body.status = f.status
               /\ net'[k].body.priority = f.priority
               /\ Copies(net', net'[k]) = Copies(net, net'[k]) + 1]_vars

\* C8: never are two create requests of the task creation form in flight, nor two
\* update requests for one task, nor two DELETEs for one task; the same for
\* comments.
C8_NoDuplicateRequests ==
  \A i, j \in 1..Len(net) :
    (i # j /\ net[i].kind = net[j].kind /\ net[i].kind \in TaskKinds \cup CommentKinds)
    => /\ net[i].kind \notin {"POST_TASK", "POST_COMMENT"}
       /\ net[i].id # net[j].id

\* C9: the response to a comment fetch is taken as it comes: whatever task is
\* selected by then, the list it returned becomes the list shown and the loading
\* indicator goes off. (Reaching C9_Witness shows the state the claim describes.)
C9_FetchResponseIsNotGuarded ==
  [][\A i \in 1..Len(net) : \A list \in ServerCommentLists(net[i].id, {1}) :
       (net[i].listLive /\ CommentsFetchStep(i, "ok", list))
       => comments' = list /\ ~commentsLoading']_vars

\* C9 witness: a task is selected, no comment fetch is in flight, the loading
\* indicator is off, and the list shown is the one returned for another task
C9_Witness ==
  /\ selectedTask # NoTask
  /\ \A id \in TaskIds : FetchCount(net, id) = 0
  /\ ~commentsLoading /\ commentsError = NULL
  /\ comments # <<>> /\ comments[1].task_id # selectedTask.id

\* C10: a step that changes the selection to a task with another id sends exactly
\* one GET /api/tasks/{id}/comments, for the new id; a step that leaves the
\* selected id as it is sends none.
C10_OneFetchPerSelectionChange ==
  [][  /\ ((selectedTask'.id # 0 /\ selectedTask'.id # selectedTask.id)
          => (/\ FetchCount(net', selectedTask'.id)
                  = FetchCount(net, selectedTask'.id) + 1
              /\ \A id \in TaskIds \ {selectedTask'.id} :
                   FetchCount(net', id) <= FetchCount(net, id)))
      /\ ((selectedTask'.id = selectedTask.id)
          => (\A id \in TaskIds : FetchCount(net', id) <= FetchCount(net, id)))]_vars

\* C10 witness: the selection went from task 1 to task 2 (the list of task 1 is
\* still held) and the one fetch for task 2 is in flight
C10_Witness ==
  /\ selectedTask.id = 2 /\ commentsLoading
  /\ comments # <<>> /\ comments[1].task_id = 1
  /\ FetchCount(net, 2) = 1 /\ FetchCount(net, 1) = 0

\* requests of one kind in flight
NumKind(q, kind) == Cardinality({i \in 1..Len(q) : q[i].kind = kind})

\* C11: when the GET /api/tasks sent at activation fails (network, or a status
\* that is not a success), the view has its error set and loading cleared, nothing
\* of the list is rendered, no GET /api/tasks is ever sent again and the error
\* stays in every later state.
C11_FailedLoadIsFinal ==
  [][  /\ (\A i \in 1..Len(net) : \A outcome \in {"network", "error_json"} :
            (net[i].kind = "GET_TASKS"
               /\ Commit(fetchTasks([Now EXCEPT !.net = Remove(@, i)], outcome, <<>>)))
            => (/\ error' = ReadError(outcome, "Failed to fetch tasks")
                /\ ~loading'
                /\ ~taskForm'.mounted /\ ~taskEditForm'.mounted /\ isDeleting' = {}
                /\ tasks' = <<>> /\ net' = <<>>))
      /\ (error # NULL => error' = error)
      /\ (NumKind(net', "GET_TASKS") <= NumKind(net, "GET_TASKS"))]_vars

\* C11 witness: the first fetch got a status that is not a success
C11_Witness ==
  /\ error = "Failed to fetch tasks" /\ ~loading
  /\ tasks = <<>> /\ net = <<>> /\ selectedTask = NoTask

C14_UpdatedShownIffDiffers ==
  \A k \in 1..Len(comments) :
    (CommentItemsShown(St) /\ comments[k].id # editingComment)
    => (ShowsUpdated(comments[k]) <=> comments[k].updated_at # comments[k].created_at)

\* C14 witness: two items on screen, a comment just created (one timestamp) above
\* a comment that was edited (both timestamps)
C14_Witness ==
  /\ CommentItemsShown(St) /\ editingComment = 0 /\ Len(comments) = 2
  /\ comments[1].updated_at = comments[1].created_at /\ ~ShowsUpdated(comments[1])
  /\ comments[2].updated_at # comments[2].created_at /\ ShowsUpdated(comments[2])

\* C15: the response of one request changes the list by that request's effect
\* only: a successful save leaves every other task in or out of the list as it
\* was (and a created task is in it), a successful DELETE takes out that task and
\* nothing else comes back or goes; so after all responses, in any order, no
\* deleted task is back and no created task is lost. The same for comments.
C15_NoLostUpdates ==
  [][  /\ (\A i \in 1..Len(net) :
            (net[i].kind \in {"POST_TASK", "PUT_TASK"} /\ TaskSaveStep(i, "ok"))
            => LET id == IF net[i].kind = "POST_TASK" THEN nextId ELSE net[i].id IN
               (/\ Ids(tasks') \ {id} = Ids(tasks) \ {id}
                /\ (net[i].kind = "POST_TASK" => id \in Ids(tasks'))))
      /\ (\A i \in 1..Len(net) :
            TaskDeleteStep(i, "ok") => (Ids(tasks') = Ids(tasks) \ {net[i].id}))
      /\ (\A i \in 1..Len(net) :
            (net[i].kind \in {"POST_COMMENT", "PUT_COMMENT"} /\ net[i].listLive
               /\ CommentSaveStep(i, "ok"))
            => LET id == IF net[i].kind = "POST_COMMENT" THEN nextCid ELSE net[i].id IN
               (Ids(comments') \ {id} = Ids(comments) \ {id}))
      /\ (\A i \in 1..Len(net) :
            (net[i].listLive /\ CommentDeleteStep(i, "ok"))
            => (Ids(comments') = Ids(comments) \ {net[i].id}))]_vars

\* C16: once the list has loaded, the selected task is empty or has the id of a
\* task in the list.
C16_SelectionIsInTheList ==
  ListShown(St) => (selectedTask = NoTask \/ selectedTask.id \in Ids(tasks))

\* C17: when the successful response to a PUT /api/tasks/X is processed, the id
\* of the selected task stays what it was just before.
C17_UpdateKeepsSelectedId ==
  [][\A i \in 1..Len(net) :
       (net[i].kind = "PUT_TASK" /\ TaskSaveStep(i, "ok"))
       => (selectedTask'.id = selectedTask.id)]_vars

\* C18: when the successful response to a PUT /api/tasks/A is processed while
\* another task B is in edit mode, B is still in edit mode afterwards.
C18_UpdateLeavesOtherEditMode ==
  [][\A i \in 1..Len(net) :
       (net[i].kind = "PUT_TASK" /\ TaskSaveStep(i, "ok")
          /\ editingTask # 0 /\ editingTask # net[i].id)
       => (editingTask' = editingTask)]_vars

\* C19: when the successful response to the comment fetch of the selected task
\* is processed, the panel shows the comments returned and no error, also when
\* the fetch for a task selected earlier had failed.
C19_FetchErrorIsPerTask ==
  [][\A i \in 1..Len(net) : \A list \in ServerCommentLists(net[i].id, {1}) :
       (net[i].listLive /\ net[i].id = selectedTask.id /\ CommentsFetchStep(i, "ok", list))
       => (commentsError' = NULL /\ comments' = list)]_vars

\* the task that was selected when a comment request was sent
RequestTask(r) == r.taskId

\* C20: when the successful response to a comment create/update/delete sent
\* under task A is processed while another task B is selected and B's comments
\* are loaded (no comment fetch is awaited, the list shown is B's), the list
\* shown stays exactly B's comments.
C20_LateCommentResponseKeepsList ==
  [][\A i \in 1..Len(net) :
       (/\ net[i].kind \in CommentKinds
        /\ RequestTask(net[i]) # selectedTask.id
        /\ CommentListMounted(St) /\ ~commentsLoading /\ commentsError = NULL
        /\ NumKind(net, "GET_COMMENTS") = 0
        /\ \A k \in 1..Len(comments) : comments[k].task_id = selectedTask.id
        /\ (CommentSaveStep(i, "ok") \/ CommentDeleteStep(i, "ok")))
       => (comments' = comments)]_vars
====
